---- MODULE Spec2Model ----
(***************************************************************************)
(* Model of create_icon.py: a sequential script that, for each entry of a  *)
(* fixed list of (pixel size, file name) pairs, writes a vector file       *)
(* temp_<size>.svg, calls the rasterizer qlmanage, moves its output        *)
(* temp_<size>.svg.png into the staging directory Aranet4.iconset (or      *)
(* calls the fallback sips when there is no output), removes the vector    *)
(* file, and finally calls iconutil to bundle the staging directory into   *)
(* Aranet4.icns.                                                           *)
(*                                                                         *)
(* The state is the working directory (the files the script touches), the  *)
(* console, the position of the script, and history variables counting     *)
(* the external tool invocations.  The external tools are the environment: *)
(* each invocation either produces its output file or produces nothing.    *)
(***************************************************************************)
EXTENDS Integers, Sequences, FiniteSets, TLC

\* ---------------------------------------------------------------- bounds

\* Bitmaps of at most the first MaxStale list entries may already lie in the
\* staging directory when the script starts (left by an earlier failed run).
MaxStale == 1

\* Number of consecutive runs of the script in the same working directory.
MaxRuns == 2

\* ------------------------------------------------------ program constants

\* the list with the file name of its first entry repeated in the second
sizesDupName ==
  << <<16, "icon_16x16.png">>,
     <<32, "icon_16x16.png">>,
     <<32, "icon_32x32.png">>,
     <<64, "icon_32x32@2x.png">>,
     <<128, "icon_128x128.png">>,
     <<256, "icon_128x128@2x.png">>,
     <<256, "icon_256x256.png">>,
     <<512, "icon_256x256@2x.png">>,
     <<512, "icon_512x512.png">>,
     <<1024, "icon_512x512@2x.png">> >>

\* lines 8-19: the (pixel size, file name) pairs
sizes ==
  << <<16, "icon_16x16.png">>,
     <<32, "icon_16x16@2x.png">>,
     <<32, "icon_32x32.png">>,
     <<64, "icon_32x32@2x.png">>,
     <<128, "icon_128x128.png">>,
     <<256, "icon_128x128@2x.png">>,
     <<256, "icon_256x256.png">>,
     <<512, "icon_256x256@2x.png">>,
     <<512, "icon_512x512.png">>,
     <<1024, "icon_512x512@2x.png">> >>

NumSizes == Len(sizes)
Entries == 1..NumSizes
SizeOf(k) == sizes[k][1]
NameOf(k) == sizes[k][2]
PixelSizes == {SizeOf(k) : k \in Entries}
FileNames == {NameOf(k) : k \in Entries}

\* int(size * 0.225): truncation of size * 225 / 1000
RadiusRounded(size) == (size * 225 + 500) \div 1000

Radius(size) == (size * 225) \div 1000

\* int(size * 0.65): truncation of size * 65 / 100
FontSize(size) == (size * 65) \div 100

\* --------------------------------------------------------- file contents

NoFile == [kind |-> "none"]
StaleFile == [kind |-> "stale"]

\* svg_template.format(size, radius, fontsize)
SvgContent(size) ==
  [kind |-> "svg", size |-> size, radius |-> Radius(size),
   fontsize |-> FontSize(size)]

\* the bitmap a tool renders from a vector file
Bitmap(tool, src) ==
  [kind |-> "png", tool |-> tool, size |-> src.size, radius |-> src.radius,
   fontsize |-> src.fontsize]

\* the archive iconutil builds from the files of the staging directory
Bundle(dir) == [kind |-> "icns", bundle |-> dir]

\* os.path.exists
Exists(f) == f # NoFile

\* lines 70 and 74: the two final messages
SuccessMsg == "Icon created successfully: Aranet4.icns"
FailureMsg == "Failed to create icon"

EmptyDir == [n \in FileNames |-> NoFile]

VARIABLES
  pc,           \* position of the script
  i,            \* index of the list entry the loop is at
  run,          \* number of the current run
  iconsetDir,   \* TRUE iff the directory Aranet4.iconset exists
  iconset,      \* file name -> content of Aranet4.iconset/<file name>
  svg,          \* pixel size -> content of temp_<size>.svg
  png,          \* pixel size -> content of temp_<size>.svg.png
  icns,         \* content of Aranet4.icns
  console,      \* the messages printed by the current run
  qlCalls,      \* entry -> qlmanage invocations of the current run
  sipsCalls,    \* entry -> sips invocations of the current run
  pngSeen,      \* entry -> "yes"/"no": result of os.path.exists(temp_png)
  produced,     \* entries whose bitmap was put into the staging directory
  iconutilCalls,\* iconutil invocations of the current run
  det,          \* TRUE iff the tools are deterministic functions of their input
  memoQl,       \* pixel size -> outcome qlmanage had on that vector file
  memoSips,     \* pixel size -> outcome sips had on that vector file
  memoIcon,     \* outcomes iconutil had, by staging directory contents
  prevFinal     \* the working directory as the previous run left it, if any

fsVars == <<iconsetDir, iconset, svg, png, icns>>
histVars == <<qlCalls, sipsCalls, pngSeen, produced, iconutilCalls>>
toolVars == <<det, memoQl, memoSips, memoIcon>>
vars == <<pc, i, run, fsVars, console, histVars, toolVars, prevFinal>>

FileSystem ==
  [iconsetDir |-> iconsetDir, iconset |-> iconset, svg |-> svg, png |-> png,
   icns |-> icns]

\* ------------------------------------------------------------------ Init

\* The working directory is fresh, or as an earlier complete run left it:
\* a run that printed success leaves Aranet4.icns and no staging directory,
\* a run that printed failure leaves the staging directory with the bitmaps
\* it managed to produce and no Aranet4.icns.
StaleSets == SUBSET {NameOf(k) : k \in 1..MaxStale}

InitFS ==
  /\ svg = [s \in PixelSizes |-> NoFile]
  /\ png = [s \in PixelSizes |-> NoFile]
  /\ \/ /\ iconsetDir = FALSE
        /\ iconset = EmptyDir
        /\ icns \in {NoFile, StaleFile}
     \/ /\ iconsetDir = TRUE
        /\ icns = NoFile
        /\ \E st \in StaleSets :
             iconset = [n \in FileNames |-> IF n \in st THEN StaleFile ELSE NoFile]

InitRun ==
  /\ pc = "makedirs"
  /\ i = 1
  /\ run = 1
  /\ console = <<>>
  /\ qlCalls = [k \in Entries |-> 0]
  /\ sipsCalls = [k \in Entries |-> 0]
  /\ pngSeen = [k \in Entries |-> "unknown"]
  /\ produced = {}
  /\ iconutilCalls = 0
  /\ memoQl = [s \in PixelSizes |-> "unknown"]
  /\ memoSips = [s \in PixelSizes |-> "unknown"]
  /\ memoIcon = {}
  /\ prevFinal = NoFile

Init == InitFS /\ InitRun /\ det = FALSE

InitTwice == InitFS /\ InitRun /\ det = TRUE

\* ------------------------------------------------------- external tools

\* The outcomes a tool may have on an input: "yes" (it writes its output
\* file) or "no" (it writes nothing).  A deterministic tool repeats the
\* outcome it had on the same input.
Outcomes(memo, key) ==
  IF det /\ memo[key] # "unknown" THEN {memo[key]} ELSE {"yes", "no"}

Remember(memo, key, out) == IF det THEN [memo EXCEPT ![key] = out] ELSE memo

IconOutcomes(dir) ==
  IF det /\ \E m \in memoIcon : m.dir = dir
    THEN {m.out : m \in {x \in memoIcon : x.dir = dir}}
    ELSE {"yes", "no"}

\* ---------------------------------------------------------------- actions

\* line 5: os.makedirs('Aranet4.iconset', exist_ok=True); line 34: print
MakeDirs ==
  /\ pc = "makedirs"
  /\ iconsetDir' = TRUE
  /\ console' = Append(console, "Creating icon files...")
  /\ pc' = IF NumSizes = 0 THEN "iconutil" ELSE "write"
  /\ UNCHANGED <<i, run, iconset, svg, png, icns, histVars, toolVars, prevFinal>>

\* lines 37-45: format the template and write temp_<size>.svg
WriteSvg ==
  /\ pc = "write"
  /\ svg' = [svg EXCEPT ![SizeOf(i)] = SvgContent(SizeOf(i))]
  /\ pc' = "qlmanage"
  /\ UNCHANGED <<i, run, iconsetDir, iconset, png, icns, console, histVars,
                 toolVars, prevFinal>>

\* line 52: os.system('qlmanage -t -s size -o . temp_<size>.svg')
Qlmanage ==
  /\ pc = "qlmanage"
  /\ \E out \in Outcomes(memoQl, SizeOf(i)) :
       /\ png' = IF out = "yes"
                   THEN [png EXCEPT ![SizeOf(i)] = Bitmap("qlmanage", svg[SizeOf(i)])]
                   ELSE png
       /\ memoQl' = Remember(memoQl, SizeOf(i), out)
  /\ qlCalls' = [qlCalls EXCEPT ![i] = @ + 1]
  /\ pc' = "move"
  /\ UNCHANGED <<i, run, iconsetDir, iconset, svg, icns, console, sipsCalls,
                 pngSeen, produced, iconutilCalls, det, memoSips, memoIcon,
                 prevFinal>>

\* line 56: the test that chooses between the move and the fallback
FallbackNeededNever(f) == FALSE

FallbackNeeded(f) == ~Exists(f)

\* lines 55-58: temp_png exists: os.rename(temp_png, png_path); print
Rename ==
  /\ pc = "move"
  /\ ~FallbackNeeded(png[SizeOf(i)])
  /\ iconset' = [iconset EXCEPT ![NameOf(i)] = png[SizeOf(i)]]
  /\ png' = [png EXCEPT ![SizeOf(i)] = NoFile]
  /\ pngSeen' = [pngSeen EXCEPT ![i] = IF Exists(png[SizeOf(i)]) THEN "yes" ELSE "no"]
  /\ produced' = IF Exists(png[SizeOf(i)]) THEN produced \cup {i} ELSE produced
  /\ console' = Append(console, "Created " \o NameOf(i))
  /\ pc' = "remove"
  /\ UNCHANGED <<i, run, iconsetDir, svg, icns, qlCalls, sipsCalls,
                 iconutilCalls, toolVars, prevFinal>>

\* lines 59-61: temp_png is missing: os.system('sips ... --out png_path svg_path')
Sips ==
  /\ pc = "move"
  /\ FallbackNeeded(png[SizeOf(i)])
  /\ \E out \in Outcomes(memoSips, SizeOf(i)) :
       /\ iconset' = IF out = "yes"
                       THEN [iconset EXCEPT ![NameOf(i)] = Bitmap("sips", svg[SizeOf(i)])]
                       ELSE iconset
       /\ produced' = IF out = "yes" THEN produced \cup {i} ELSE produced
       /\ memoSips' = Remember(memoSips, SizeOf(i), out)
  /\ pngSeen' = [pngSeen EXCEPT ![i] = IF Exists(png[SizeOf(i)]) THEN "yes" ELSE "no"]
  /\ sipsCalls' = [sipsCalls EXCEPT ![i] = @ + 1]
  /\ pc' = "remove"
  /\ UNCHANGED <<i, run, iconsetDir, svg, png, icns, console, qlCalls,
                 iconutilCalls, det, memoQl, memoIcon, prevFinal>>

\* os.remove(path) on the table of vector files
RemoveFileKeep(files, s) == files

RemoveFile(files, s) == [files EXCEPT ![s] = NoFile]

\* the loop stops after an entry whose conversion put no bitmap in place
LoopEndsAfterBreak(k) == k = NumSizes \/ k \notin produced

\* the loop stops one entry short of the list's end
LoopEndsAfterEarly(k) == k >= NumSizes - 1

\* the for loop ends after the last list entry
LoopEndsAfter(k) == k = NumSizes

\* line 64: os.remove(svg_path); then the next entry, or line 66: print
RemoveSvg ==
  /\ pc = "remove"
  /\ svg' = RemoveFile(svg, SizeOf(i))
  /\ IF LoopEndsAfter(i)
       THEN /\ pc' = "iconutil"
            /\ console' = Append(console, "Converting iconset to icns...")
       ELSE /\ pc' = "write"
            /\ console' = console
  /\ i' = i + 1
  /\ UNCHANGED <<run, iconsetDir, iconset, png, icns, histVars, toolVars,
                 prevFinal>>

\* line 67: os.system('iconutil -c icns Aranet4.iconset -o Aranet4.icns')
Iconutil ==
  /\ pc = "iconutil"
  /\ \E out \in IconOutcomes(iconset) :
       /\ icns' = IF out = "yes" THEN Bundle(iconset) ELSE icns
       /\ memoIcon' = IF det THEN memoIcon \cup {[dir |-> iconset, out |-> out]}
                             ELSE memoIcon
  /\ iconutilCalls' = iconutilCalls + 1
  /\ pc' = "check"
  /\ UNCHANGED <<i, run, iconsetDir, iconset, svg, png, console, qlCalls,
                 sipsCalls, pngSeen, produced, det, memoQl, memoSips, prevFinal>>

\* the final test with the clean-up outside its success branch
FinalCheckAlwaysCleanup ==
  /\ pc = "check"
  /\ console' = Append(console, IF Exists(icns) THEN SuccessMsg ELSE FailureMsg)
  /\ pc' = "cleanup"
  /\ UNCHANGED <<i, run, fsVars, histVars, toolVars, prevFinal>>

\* lines 69-70 and 73-74: the final existence test and its message
FinalCheck ==
  /\ pc = "check"
  /\ IF Exists(icns)
       THEN /\ console' = Append(console, SuccessMsg)
            /\ pc' = "cleanup"
       ELSE /\ console' = Append(console, FailureMsg)
            /\ pc' = "done"
  /\ UNCHANGED <<i, run, fsVars, histVars, toolVars, prevFinal>>

\* the success branch without its rm -rf
CleanupKeep ==
  /\ pc = "cleanup"
  /\ pc' = "done"
  /\ UNCHANGED <<i, run, fsVars, console, histVars, toolVars, prevFinal>>

\* line 72: os.system('rm -rf Aranet4.iconset')
Cleanup ==
  /\ pc = "cleanup"
  /\ iconsetDir' = FALSE
  /\ iconset' = EmptyDir
  /\ pc' = "done"
  /\ UNCHANGED <<i, run, svg, png, icns, console, histVars, toolVars, prevFinal>>

\* the script is started again in the same working directory
Restart ==
  /\ pc = "done"
  /\ run < MaxRuns
  /\ run' = run + 1
  /\ prevFinal' = FileSystem
  /\ pc' = "makedirs"
  /\ i' = 1
  /\ console' = <<>>
  /\ qlCalls' = [k \in Entries |-> 0]
  /\ sipsCalls' = [k \in Entries |-> 0]
  /\ pngSeen' = [k \in Entries |-> "unknown"]
  /\ produced' = {}
  /\ iconutilCalls' = 0
  /\ UNCHANGED <<fsVars, toolVars>>

Next ==
  \/ MakeDirs
  \/ WriteSvg
  \/ Qlmanage
  \/ Rename
  \/ Sips
  \/ RemoveSvg
  \/ Iconutil
  \/ FinalCheck
  \/ Cleanup

NextTwice == Next \/ Restart

\* one run of the script, the tools being arbitrary
Spec == Init /\ [][Next]_vars

\* consecutive runs of the script, the tools being deterministic
SpecTwice == InitTwice /\ [][NextTwice]_vars

\* the interpreter executes the next statement whenever there is one
FairSpec == Init /\ [][Next]_vars /\ WF_vars(Next)

\* ------------------------------------------------------------ properties

FinalMsgs == {n \in 1..Len(console) : console[n] \in {SuccessMsg, FailureMsg}}
Succeeded == \E n \in FinalMsgs : console[n] = SuccessMsg
Failed == \E n \in FinalMsgs : console[n] = FailureMsg

\* entry k has gone through write, conversion and removal
Processed(k) == k < i \/ (k = i /\ pc = "remove")

\* C1: when the script has terminated no temporary vector file
\* temp_<size>.svg exists, whichever tools produced output.
C1_NoTempSvgAtEnd ==
  pc = "done" => \A s \in PixelSizes : ~Exists(svg[s])

\* a finished run in which all three conversion outcomes occurred
C1_Witness ==
  /\ pc = "done"
  /\ \E k \in Entries : pngSeen[k] = "yes"
  /\ \E k \in Entries : pngSeen[k] = "no" /\ k \in produced
  /\ \E k \in Entries : pngSeen[k] = "no" /\ k \notin produced

\* C2: at the end of a run Aranet4.icns exists if and only if every one of
\* the configured bitmaps was produced into the staging directory in that run.
C2_ArtifactIffAllBitmaps ==
  pc = "done" => (Exists(icns) <=> produced = Entries)

\* C3 (as stated): after a successful run the staging directory holds
\* exactly one bitmap for each configured (size, file name) pair.
C3_StagingCompleteAfterSuccess ==
  (pc = "done" /\ Succeeded) =>
    (iconsetDir /\ \A n \in FileNames : Exists(iconset[n]))

\* C3 (amended): after a successful run the staging directory has been
\* removed and holds no file; while the success message is printed, before
\* the clean-up, it holds the bitmap of every entry converted in this run.
C3_StagingRemovedAfterSuccess ==
  /\ (pc = "done" /\ Succeeded) => (~iconsetDir /\ iconset = EmptyDir)
  /\ pc = "cleanup" =>
       /\ Succeeded
       /\ iconsetDir
       /\ \A k \in produced : Exists(iconset[NameOf(k)])

\* a successful, finished run that had converted every entry
C3_Witness == pc = "done" /\ Succeeded /\ produced = Entries

\* C4 (as stated): for size 16 the vector description has corner radius 4
\* and font size 10.
C4_Radius4Font10 ==
  Exists(svg[16]) => (svg[16].radius = 4 /\ svg[16].fontsize = 10)

\* C4 (amended): for size 16 the vector description has corner radius 3
\* (16 * 0.225 = 3.6 truncated) and font size 10 (16 * 0.65 = 10.4 truncated).
C4_Radius3Font10 ==
  Exists(svg[16]) => (svg[16].radius = 3 /\ svg[16].fontsize = 10)

\* temp_16.svg has been written
C4_Witness == Exists(svg[16]) /\ svg[16].size = 16

\* C5: with deterministic tools, a second run in the same working directory
\* leaves the same files (bundle content, staging directory, temporary
\* files) as the first run left.
C5_SecondRunSameFiles ==
  (run = 2 /\ pc = "done") => FileSystem = prevFinal

\* C6: for each list entry qlmanage is invoked exactly once and sips at most
\* once, and sips is invoked exactly when temp_<size>.svg.png was absent
\* after the qlmanage call.
C6_FallbackOnceIffNoOutput ==
  \A k \in Entries :
    /\ qlCalls[k] <= 1
    /\ sipsCalls[k] <= 1
    /\ Processed(k) =>
         /\ qlCalls[k] = 1
         /\ pngSeen[k] \in {"yes", "no"}
         /\ sipsCalls[k] = 1 <=> pngSeen[k] = "no"
    /\ ~Processed(k) => sipsCalls[k] = 0

\* a finished run that used the fallback for some entry and not for another
C6_Witness ==
  /\ pc = "done"
  /\ \E k \in Entries : sipsCalls[k] = 1
  /\ \E k \in Entries : sipsCalls[k] = 0 /\ qlCalls[k] = 1

\* the state in which a run ends
FinalOutcome ==
  /\ \A k \in Entries : qlCalls[k] = 1 /\ pngSeen[k] # "unknown"
  /\ iconutilCalls = 1
  /\ Cardinality(FinalMsgs) = 1
  /\ Failed <=> ~Exists(icns)

\* C7: every run terminates; a failed conversion stops neither the
\* remaining entries nor the bundler, and the run ends with exactly one of
\* the two final messages, the failure message exactly when Aranet4.icns is
\* absent.
C7_Terminates ==
  /\ <>(pc = "done")
  /\ [](pc = "done" => FinalOutcome)

\* a finished, failed run in which an entry got no bitmap and a later one did
C7_Witness ==
  /\ pc = "done"
  /\ Failed
  /\ \E k \in Entries : k \notin produced /\ \E j \in produced : j > k

\* C8: iconutil is invoked exactly once per run, and only after every list
\* entry has been processed, in list order, each entry's vector file being
\* written, converted and removed before the next entry starts.
C8_BundleOnceAfterAllSizes ==
  /\ iconutilCalls <= 1
  /\ pc \in {"check", "cleanup", "done"} <=> iconutilCalls = 1
  /\ (pc = "iconutil" \/ iconutilCalls = 1) =>
       /\ i = NumSizes + 1
       /\ \A k \in Entries : qlCalls[k] = 1 /\ pngSeen[k] # "unknown"
       /\ \A s \in PixelSizes : ~Exists(svg[s])
  /\ \A k \in Entries : qlCalls[k] > 0 => k <= i /\ \A j \in 1..(k - 1) : Processed(j)
  /\ pc = "write" => \A s \in PixelSizes : ~Exists(svg[s]) /\ ~Exists(png[s])

\* the bundler has run after ten processed entries
C8_Witness == iconutilCalls = 1 /\ i = NumSizes + 1 /\ pc = "check"

LoopPcs == {"write", "qlmanage", "move", "remove"}

\* a step inside the loop leaves the bitmaps of the earlier entries as they are
BitmapsKeptStep ==
  pc \in LoopPcs =>
    \A k \in produced : k < i => (iconset'[NameOf(k)] = iconset[NameOf(k)])

\* C9: no two list entries share a file name, so a bitmap put into the
\* staging directory by one iteration is not changed by a later iteration,
\* although entries of the same pixel size share the temporary paths.
C9_BitmapsKept ==
  /\ \A j, k \in Entries : NameOf(j) = NameOf(k) => j = k
  /\ [][BitmapsKeptStep]_vars

\* two entries of pixel size 32 were converted, by different tools
C9_Witness ==
  /\ pc = "iconutil"
  /\ {2, 3} \subseteq produced
  /\ iconset[NameOf(2)].tool = "qlmanage"
  /\ iconset[NameOf(3)].tool = "sips"
  /\ iconset[NameOf(2)].size = 32 /\ iconset[NameOf(3)].size = 32

\* C10: at the end of a run the staging directory has been removed if and
\* only if Aranet4.icns exists at the final check; when it is absent the
\* final step leaves the staging directory and its bitmaps unchanged.
C10_StagingRemovedIffArtifact ==
  /\ [](pc = "done" => (~iconsetDir <=> Exists(icns)))
  /\ [][(pc = "check" /\ ~Exists(icns)) =>
          (pc' = "done" /\ iconsetDir' = iconsetDir /\ iconset' = iconset)]_vars

\* a failed, finished run that left bitmaps in the staging directory
C10_Witness ==
  /\ pc = "done"
  /\ ~Exists(icns)
  /\ iconsetDir
  /\ \E k \in produced : Exists(iconset[NameOf(k)])

====
